---- MODULE Spec2Model ----
\* A model of the vendored fitrequest / skillcorner HTTP client:
\*   - the method binder (_MethodsGenerator) that turns _methods_binding into
\*     bound operations at class-creation time,
\*   - the request executor (FitRequest._request), the lazy session, the
\*     pagination wrapper (SkillcornerClient._request/_paginate_and_return),
\*     the tracking-data strategy and the persistence helper,
\*   - the wrapper closure (modified_method) run by two threads.
EXTENDS Integers, Sequences, FiniteSets, TLC

VARIABLES
    \* ---- binder state (method_generator.py)
    declared,   \* _methods_binding as written in the class body (history)
    binding,    \* _methods_binding as it is now (the dicts are mutable)
    template,   \* whether the client type sets _docstring_template
    classes,    \* per class created so far: operation name -> MethodDetails
    methods,    \* per class created so far: what get_and_extend_methods returned
    \* ---- one client instance, one thread (client.py)
    base_url,   \* self.base_url
    server,     \* the remote API: page -> decoded body it serves
    session,    \* self._session: 0 is None, otherwise the Session's identity
    created,    \* how many times Session() has been constructed
    dispatched, \* whether session.request has been called on this instance
    sent,       \* the urls handed to session.request during the current call
    pc,         \* "idle", "paging", "returned", "raised"
    call,       \* the arguments of the current call
    inner,      \* what the first FitRequest._request of the call gave
    response,   \* _paginate_and_return's local `response`
    results,    \* _paginate_and_return's local `results`
    outcome,    \* the value returned, or the exception raised, by the call
    files,      \* the file system: path -> content (Absent when no file)
    before,     \* the file system when the current call started (history)
    \* ---- two threads, one client instance each, same client type
    frozen_kwargs, \* per descriptor: its 'resource_id' entry (0: no such key)
    tpc,        \* per thread: "idle", "set", "called"
    targ,       \* per thread: the descriptor called and the id supplied
    treq        \* per thread: the resource id that filled the url placeholder

binderVars == <<declared, binding, template, classes, methods>>
clientVars == <<base_url, server, session, created, dispatched, sent, pc, call, inner,
                response, results, outcome, files, before>>
threadVars == <<frozen_kwargs, tpc, targ, treq>>
vars == <<binderVars, clientVars, threadVars>>

-----------------------------------------------------------------------------
\* Bounds of the model.

\* Longest operation name, in characters.
MaxNameLen == 4
\* How many classes (the client type and its subclasses) are created.
MaxClasses == 2

-----------------------------------------------------------------------------
\* Strings are sequences of characters.

Alphabet == {"g", "_"}
Underscore == "_"
SaveWord == <<"s", "a", "v", "e">>

Names == UNION {[1..n -> Alphabet] : n \in 1..MaxNameLen}

\* str.startswith
StartsWith(s, t) == Len(t) <= Len(s) /\ SubSeq(s, 1, Len(t)) = t

\* s.split('_')[0]: the characters before the first underscore.
RECURSIVE FirstWord(_)
FirstWord(s) ==
    IF s = <<>> \/ Head(s) = Underscore THEN <<>>
    ELSE <<Head(s)>> \o FirstWord(Tail(s))

\* str.replace(old, new) with a non-empty old: every non-overlapping
\* occurrence, left to right.
RECURSIVE Replace(_, _, _)
Replace(s, old, new) ==
    IF Len(s) < Len(old) THEN s
    ELSE IF StartsWith(s, old)
         THEN new \o Replace(SubSeq(s, Len(old) + 1, Len(s)), old, new)
         ELSE <<Head(s)>> \o Replace(Tail(s), old, new)

\* str.strip('_')
RECURSIVE LStrip(_)
LStrip(s) == IF s # <<>> /\ Head(s) = Underscore THEN LStrip(Tail(s)) ELSE s
RECURSIVE RStrip(_)
RStrip(s) ==
    IF s # <<>> /\ s[Len(s)] = Underscore THEN RStrip(SubSeq(s, 1, Len(s) - 1))
    ELSE s
Strip(s) == RStrip(LStrip(s))

-----------------------------------------------------------------------------
\* The method binder.
\*
\* A descriptor is a dict of _methods_binding.  Optional keys are modelled by
\* a value that says the key is missing: csm (create_save_method) is "absent",
\* "True" or "False"; docstring is "" (missing), "given", "rendered" or one of
\* these with the persistence note; exec_method is "" when missing.

Descriptor(n, c, d) ==
    [name |-> n, csm |-> c, docstring |-> d, exec_method |-> "",
     extra_params |-> <<>>]

\* method['docstring'] = cls._docstring_template.format(**method)
WithDocstring(m, tmpl) ==
    IF tmpl /\ m.docstring = "" THEN [m EXCEPT !.docstring = "rendered"] ELSE m

\* method.pop('create_save_method', True): the value popped ...
PoppedValue(m) == m.csm # "False"
\* ... and the dict afterwards.
AfterPop(m) == [m EXCEPT !.csm = "absent"]

\* method.get("exec_method", "_request")
ExecMethodOf(m) == IF m.exec_method = "" THEN "_request" ELSE m.exec_method

\* result['name'] = method['name'].replace(f'{prefix_verb}_', 'save_')
SaveName(n) ==
    Replace(n, FirstWord(n) \o <<Underscore>>, SaveWord \o <<Underscore>>)

\* _create_save_method_from: a copy of the (already popped) dict.
create_save_method_from(m) ==
    [m EXCEPT !.name = SaveName(m.name),
              !.exec_method = ExecMethodOf(m) \o "_and_save",
              !.extra_params = m.extra_params \o <<"filepath">>,
              !.docstring = IF m.docstring # "" THEN m.docstring \o "+saves"
                            ELSE ""]

\* One iteration of get_and_extend_methods' loop over a descriptor: the
\* entries appended to methods_extended.  The first is the dict of the
\* binding itself, so it shows the pop as well.
ExtendOne(m, tmpl) ==
    LET d == AfterPop(WithDocstring(m, tmpl))
    IN  IF PoppedValue(m) THEN <<d, create_save_method_from(d)>> ELSE <<d>>

\* The descriptor as the loop leaves it in cls._methods_binding: the loop
\* works on the dicts of the list themselves, not on copies.
BindingAfter(m, tmpl) == AfterPop(WithDocstring(m, tmpl))

RECURSIVE ExtendAll(_, _)
ExtendAll(b, tmpl) ==
    IF b = <<>> THEN <<>>
    ELSE ExtendOne(Head(b), tmpl) \o ExtendAll(Tail(b), tmpl)

\* MethodDetails(**method): the fields pydantic keeps, defaults filled in.
MethodDetails(m) ==
    [name |-> m.name, exec_method |-> ExecMethodOf(m),
     docstring |-> m.docstring, extra_params |-> m.extra_params]

get_and_extend_methods(b, tmpl) ==
    LET ext == ExtendAll(b, tmpl)
    IN  [i \in 1..Len(ext) |-> MethodDetails(ext[i])]

\* __new__: cls_dict[func_name] = ... for each MethodDetails in order, where
\* func_name = name.strip('_'); a later entry of the same name replaces an
\* earlier one.
RECURSIVE Attach(_, _)
Attach(ops, mds) ==
    IF mds = <<>> THEN ops
    ELSE LET md == Head(mds)
             fn == Strip(md.name)
         IN  Attach([k \in DOMAIN ops \cup {fn} |->
                        IF k = fn THEN md ELSE ops[k]], Tail(mds))

-----------------------------------------------------------------------------
\* The request executor, the pagination wrapper, the tracking-data strategy
\* and the persistence helper, for one client instance used by one thread.

\* Pages the remote API serves.
MaxPages == 3
\* The most session.request calls one call of an operation makes in the model
\* (the pagination loop itself has no bound).
MaxRequests == 5

Pages == 1..MaxPages

\* A decoded response body (_handle_response): a JSON object with some of the
\* keys "results", "next" and "data", or bytes.  next = 0 is JSON null,
\* next = q is the url of page q under the client's base url.  Page 0 is the
\* body of a response whose status is an error.
Bytes(p) == [kind |-> "bytes", keys |-> {}, page |-> p, next |-> 0]
Dict(p, ks, nx) == [kind |-> "dict", keys |-> ks, page |-> p, next |-> nx]
Shapes(p) ==
    {Bytes(p), Dict(p, {"data"}, 0), Dict(p, {"results"}, 0)}
    \cup {Dict(p, {"results", "next"}, n) : n \in 0..MaxPages}

\* The "results" list of page p (and the records of its lines, for a body
\* in the line-delimited format): one or two items that name the page.
Items(p) ==
    IF p = 0 THEN <<>>
    ELSE IF p % 2 = 1 THEN <<10 * p + 1, 10 * p + 2>> ELSE <<10 * p + 1>>

\* Python values that flow through the client.
NoBody == Bytes(0)
VBody(b) == [t |-> "body", b |-> b, list |-> <<>>, n |-> 0]
VList(l) == [t |-> "list", b |-> NoBody, list |-> l, n |-> 0]
VScalar(n) == [t |-> "scalar", b |-> NoBody, list |-> <<>>, n |-> n]
VNone == [t |-> "none", b |-> NoBody, list |-> <<>>, n |-> 0]

IsDict(v) == v.t = "body" /\ v.b.kind = "dict"
IsBytes(v) == v.t = "body" /\ v.b.kind = "bytes"
HasKey(v, k) == IsDict(v) /\ k \in v.b.keys

\* response[k] of a dict that has the key.
ValueAt(v, k) ==
    CASE k = "results" -> VList(Items(v.b.page))
      [] k = "next" -> IF v.b.next = 0 THEN VNone ELSE VScalar(v.b.next)
      [] OTHER -> VScalar(100 + v.b.page)

\* How a step of a call ends: a value, or an exception.  `at` names the part
\* of the operation that ended it.
Return(v, where) == [kind |-> "return", exc |-> "", val |-> v, at |-> where]
Raise(e, where) == [kind |-> "raise", exc |-> e, val |-> VNone, at |-> where]
NoOutcome == [kind |-> "none", exc |-> "", val |-> VNone, at |-> ""]

\* Urls: what urlparse sees of them.
GoodBase == [scheme |-> "https", netloc |-> "skillcorner.com"]
BareBase == [scheme |-> "", netloc |-> ""]
SchemeOnlyBase == [scheme |-> "https", netloc |-> ""]
BaseUrls == {GoodBase, BareBase, SchemeOnlyBase}

\* An endpoint: the page it names, and for a template with a placeholder the
\* resource id that fills it (0 until filled).
Endpoint(p) == [page |-> p, placeholder |-> FALSE, id |-> 0]
Template(p) == [page |-> p, placeholder |-> TRUE, id |-> 0]

\* endpoint.format(resource_id)
Format(endpoint, resource_id) ==
    IF endpoint.placeholder THEN [endpoint EXCEPT !.id = resource_id]
    ELSE endpoint

\* _is_url_valid: all([result.scheme, result.netloc])
is_url_valid(url) == url.scheme # "" /\ url.netloc # ""

\* _build_final_url: the url, or, for an invalid one, a ValueError object
\* that is returned (the statement has no raise).
build_final_url(base, endpoint) ==
    LET url == [t |-> "url", scheme |-> base.scheme, netloc |-> base.netloc,
                endpoint |-> endpoint]
    IN  IF is_url_valid(url) THEN url ELSE [url EXCEPT !.t = "ValueError"]

\* A session property that builds a Session on every access.
SessionPerAccess(s, n) == [session |-> n + 1, created |-> n + 1]

\* The session property: self._session after the access, and the number of
\* Session() constructions so far.
session_property(s, n) ==
    IF s = 0 THEN [session |-> n + 1, created |-> n + 1]
    ELSE [session |-> s, created |-> n]

\* session.request(url=...) followed by _handle_response: the decoded body,
\* or the exception.  `ok` is whether the server answers with a 2xx status.
\* A url that is no http(s) url is refused by the session itself.
handle_response(url, raise_for_status, ok) ==
    IF url.t # "url" THEN Raise("InvalidSchema", "fetch")
    ELSE IF ~ok
         THEN IF raise_for_status THEN Raise("HTTPError", "fetch")
              ELSE Return(VBody(NoBody), "fetch")
         ELSE Return(VBody(server[url.endpoint.page]), "fetch")

\* return response[response_key] if isinstance(response, dict) and
\* response_key else response
Unwrap(v, response_key) ==
    IF IsDict(v) /\ response_key # "None"
    THEN IF HasKey(v, response_key)
         THEN Return(ValueAt(v, response_key), "fetch")
         ELSE Raise("KeyError", "fetch")
    ELSE Return(v, "fetch")

\* FitRequest._request, given the server's status.
FitRequest_request(endpoint, raise_for_status, resource_id, response_key, ok) ==
    LET url == build_final_url(base_url, Format(endpoint, resource_id))
        got == handle_response(url, raise_for_status, ok)
    IN  [url |-> url,
         out |-> IF got.kind = "raise" THEN got
                 ELSE Unwrap(got.val, response_key)]

\* What session.request was handed, with which session, and how the server
\* answered.
Sent(url, s, ok) == [url |-> url, session |-> s, ok |-> ok]

\* _is_response_complete
is_response_complete(v) == ~IsDict(v) \/ ~HasKey(v, "next")

\* An accumulator that puts each page in front of the earlier ones.
ExtendAtFront(acc, items) == items \o acc

\* results.extend(response['results'])
Extend(acc, items) == acc \o items

\* A loop that also stops at a link it has already requested.
LoopBreaksOnRepeat(v) ==
    \/ v.b.next = 0
    \/ \E i \in DOMAIN sent : sent[i].url.endpoint.page = v.b.next

\* `if not response['next']: break`, for a response that has the key.
LoopBreaks(v) == v.b.next = 0

\* response['next'].split(self.base_url)[1]: the endpoint of the linked page
\* (a link is a url under the client's base url).
NextEndpoint(v) == Endpoint(v.b.next)

\* What the body of _paginate_and_return's loop raises before it can follow
\* the link, if anything: response['results'] and response['next'] are
\* subscripts of whatever the previous request returned.
LoopError(v) ==
    CASE v.t \in {"list", "scalar", "none"} \/ IsBytes(v) -> "TypeError"
      [] ~HasKey(v, "results") -> "KeyError"
      [] ~HasKey(v, "next") -> "KeyError"
      [] OTHER -> ""

\* ---- the file system and _save_data

Paths == {"a", "b"}
Absent == [fmt |-> "absent", val |-> VNone]
OldContent == [fmt |-> "old", val |-> VNone]

\* What _save_data writes: bytes verbatim, anything else as indented JSON.
Encoded(v) == [fmt |-> IF IsBytes(v) THEN "raw" ELSE "json", val |-> v]

\* open(filepath, mode): whether it fails because the file exists.
OpenRefuses(fs, filepath, mode) == mode = "xb" /\ fs[filepath] # Absent

\* A mode that truncates an existing file.
TruncatingMode == "wb"

\* The mode _save_data opens the file with.
SaveMode == "xb"

\* _save_data(filepath, data): the file system afterwards and how it ends.
save_data(fs, filepath, data) ==
    IF OpenRefuses(fs, filepath, SaveMode)
    THEN [files |-> fs, out |-> Raise("FileExistsError", "save")]
    ELSE [files |-> [fs EXCEPT ![filepath] = Encoded(data)],
          out |-> Return(VNone, "save")]

\* ---- the tracking-data strategy

\* params: None (or an empty dict), or a dict with or without 'file_format'.
NoParams == [given |-> FALSE, has_format |-> FALSE, file_format |-> ""]
ParamsWithout == [given |-> TRUE, has_format |-> FALSE, file_format |-> ""]
ParamsWith(f) == [given |-> TRUE, has_format |-> TRUE, file_format |-> f]

valid_formats == {"jsonl", "fifa-data", "fifa-xml"}
FileFormats == valid_formats \cup {"bogus"}

\* params.get('file_format', 'jsonl')
FormatOf(params) == IF params.has_format THEN params.file_format ELSE "jsonl"

\* A check that is passed the default instead of the caller's format.
DefaultFormatRejected(params) == params.given /\ "jsonl" \notin valid_formats

\* if params and params.get('file_format', 'jsonl') not in valid_formats
FormatRejected(params) == params.given /\ FormatOf(params) \notin valid_formats

\* The rest of _get_tracking_data once self._request has returned `v`.
TrackingResult(params, v) ==
    IF ~params.given \/ FormatOf(params) = "jsonl"
    THEN IF IsBytes(v) THEN Return(VList(Items(v.b.page)), "parse")
         ELSE Raise("AttributeError", "parse")
    ELSE IF params.file_format \in {"fifa-data", "fifa-xml"}
         THEN Return(v, "parse")
         ELSE Return(VNone, "parse")

\* ---- calls

Ops == {"_request", "_request_and_save", "_get_tracking_data",
        "_get_tracking_data_and_save"}
SaveOps == {"_request_and_save", "_get_tracking_data_and_save"}
TrackingOps == {"_get_tracking_data", "_get_tracking_data_and_save"}

Call(op, p, key, rfs, params, path) ==
    [op |-> op, endpoint |-> Endpoint(p), response_key |-> key,
     raise_for_status |-> rfs, params |-> params, filepath |-> path]
NoCall == Call("", 0, "None", TRUE, NoParams, "")

\* The arguments that reach FitRequest._request: _get_tracking_data_and_save
\* passes none of its keyword arguments on, so the defaults apply.
KeyOf(c) ==
    IF c.op = "_get_tracking_data_and_save" THEN "None" ELSE c.response_key
RaiseForStatusOf(c) ==
    IF c.op = "_get_tracking_data_and_save" THEN TRUE ELSE c.raise_for_status

\* What the operation does once SkillcornerClient._request has ended with
\* `out`: the outcome of the call and the file system afterwards.
Complete(c, out, fs) ==
    LET data == IF out.kind = "return" /\ c.op \in TrackingOps
                THEN TrackingResult(c.params, out.val) ELSE out
    IN  IF data.kind = "return" /\ c.op \in SaveOps
        THEN save_data(fs, c.filepath, data.val)
        ELSE [files |-> fs, out |-> data]

\* A call of an operation, up to the first response: the format check of the
\* tracking strategy, FitRequest._request, and then either the end of the
\* call or the entry into _paginate_and_return.
Start(op, p, key, rfs, params, path) ==
    LET c == Call(op, p, key, rfs, params, path)
    IN  /\ pc = "idle"
        /\ call' = c
        /\ before' = files
        /\ IF c.op \in TrackingOps /\ FormatRejected(c.params)
           THEN /\ pc' = "raised"
                /\ outcome' = Raise("ValueError", "validate")
                /\ sent' = <<>>
                /\ inner' = NoOutcome
                /\ response' = VNone
                /\ results' = <<>>
                /\ UNCHANGED <<session, created, dispatched, files>>
           ELSE \E ok \in BOOLEAN :
                LET sp == session_property(session, created)
                    r == FitRequest_request(c.endpoint, RaiseForStatusOf(c), 0,
                                            KeyOf(c), ok)
                    paged == r.out.kind = "return" /\ ~is_response_complete(r.out.val)
                    end == Complete(c, r.out, files)
                IN  /\ session' = sp.session
                    /\ created' = sp.created
                    /\ dispatched' = TRUE
                    /\ sent' = <<Sent(r.url, sp.session, ok)>>
                    /\ inner' = r.out
                    /\ results' = <<>>
                    /\ IF paged
                       THEN /\ pc' = "paging"
                            /\ response' = r.out.val
                            /\ outcome' = NoOutcome
                            /\ UNCHANGED files
                       ELSE /\ pc' = IF end.out.kind = "return" THEN "returned"
                                     ELSE "raised"
                            /\ response' = VNone
                            /\ outcome' = end.out
                            /\ files' = end.files
        /\ UNCHANGED <<base_url, server, binderVars, threadVars>>

\* One iteration of the loop of _paginate_and_return, and, when the loop
\* ends, the rest of the operation.
PaginateStep ==
    /\ pc = "paging"
    /\ LET err == LoopError(response)
           acc == Extend(results, Items(response.b.page))
           stop == err # "" \/ LoopBreaks(response)
           out == IF err # "" THEN Raise(err, "fetch")
                  ELSE Return(VList(acc), "fetch")
       IN  IF stop
           THEN LET end == Complete(call, out, files)
                IN  /\ pc' = IF end.out.kind = "return" THEN "returned"
                             ELSE "raised"
                    /\ outcome' = end.out
                    /\ files' = end.files
                    /\ results' = IF err = "" THEN acc ELSE results
                    /\ UNCHANGED <<response, sent, session, created,
                                   dispatched>>
           ELSE /\ Len(sent) < MaxRequests
                /\ \E ok \in BOOLEAN :
                   LET sp == session_property(session, created)
                       r == FitRequest_request(NextEndpoint(response),
                                RaiseForStatusOf(call), 0, KeyOf(call), ok)
                       end == Complete(call, r.out, files)
                   IN  /\ session' = sp.session
                       /\ created' = sp.created
                       /\ dispatched' = TRUE
                       /\ sent' = Append(sent, Sent(r.url, sp.session, ok))
                       /\ results' = acc
                       /\ IF r.out.kind = "return"
                          THEN /\ response' = r.out.val
                               /\ UNCHANGED <<pc, outcome, files>>
                          ELSE /\ pc' = "raised"
                               /\ outcome' = end.out
                               /\ files' = end.files
                               /\ UNCHANGED response
    /\ UNCHANGED <<call, inner, before, base_url, server, binderVars,
                   threadVars>>

\* The call is over: the caller has the value or the exception, and the
\* instance is ready for its next call.
Done ==
    /\ pc \in {"returned", "raised"}
    /\ pc' = "idle"
    /\ call' = NoCall
    /\ sent' = <<>>
    /\ inner' = NoOutcome
    /\ response' = VNone
    /\ results' = <<>>
    /\ outcome' = NoOutcome
    /\ before' = files
    /\ UNCHANGED <<session, created, dispatched, files, base_url, server,
                   binderVars, threadVars>>

ResponseKeys == {"None", "data", "results"}

\* client.get_...(...): SkillcornerClient._request through its wrapper.
Request ==
    \E p \in Pages, k \in ResponseKeys, rfs \in BOOLEAN :
        Start("_request", p, k, rfs, NoParams, "")

\* client.save_...(..., filepath): FitRequest._request_and_save.
RequestAndSave ==
    \E p \in Pages, k \in {"None", "data"}, path \in Paths :
        Start("_request_and_save", p, k, TRUE, NoParams, path)

TrackingParams ==
    {NoParams, ParamsWithout} \cup {ParamsWith(f) : f \in FileFormats}

\* client.get_match_tracking_data(...): _get_tracking_data.
GetTrackingData ==
    \E p \in Pages, params \in TrackingParams :
        Start("_get_tracking_data", p, "None", TRUE, params, "")

\* client.save_match_tracking_data(...): _get_tracking_data_and_save.
GetTrackingDataAndSave ==
    \E p \in Pages, params \in TrackingParams, path \in Paths :
        Start("_get_tracking_data_and_save", p, "None", TRUE, params, path)

-----------------------------------------------------------------------------
\* The wrapper of a bound operation (modified_method) run by several threads,
\* each on a client instance of its own.  The wrappers are built once per
\* client type: all instances share each descriptor's frozen_kwargs dict.

\* Resource ids callers pass.
MaxIds == 2
\* Threads, each confined to its own client instance.
NThreads == 2

Threads == 1..NThreads
Ids == 1..MaxIds

\* Descriptors of METHODS_BINDING: two with a resource_name (get_match,
\* get_player) and one without (get_matches).
BoundOps == {"get_match", "get_player", "get_matches"}
HasResourceName(d) == d \in {"get_match", "get_player"}
EndpointOf(d) ==
    CASE d = "get_match" -> Template(1)
      [] d = "get_player" -> Template(2)
      [] OTHER -> Endpoint(3)

NoArg == [op |-> "", id |-> 0]

\* Lines 85-92 of modified_method: the caller's resource id is stored in the
\* descriptor's frozen_kwargs.
store_resource_id(fk, d, id) ==
    IF HasResourceName(d) THEN [fk EXCEPT ![d] = id] ELSE fk

\* Line 93, kwargs.update(frozen_kwargs): the 'resource_id' the call goes on
\* with is the one frozen_kwargs holds now.
updated_resource_id(fk, d) == fk[d]

\* thread t calls operation d with resource id `id` (0 for an operation that
\* takes none): the wrapper runs up to the store into frozen_kwargs.
Invoke(t, d, id) ==
    /\ tpc[t] \in {"idle", "called"}
    /\ HasResourceName(d) <=> id # 0
    /\ frozen_kwargs' = store_resource_id(frozen_kwargs, d, id)
    /\ targ' = [targ EXCEPT ![t] = [op |-> d, id |-> id]]
    /\ tpc' = [tpc EXCEPT ![t] = "set"]
    /\ treq' = [treq EXCEPT ![t] = 0]
    /\ UNCHANGED <<binderVars, clientVars>>

\* thread t goes on: kwargs.update(frozen_kwargs), then func(*args, **kwargs),
\* whose FitRequest._request formats the endpoint with kwargs' resource_id and
\* hands the url to the session.
Dispatch(t) ==
    /\ tpc[t] = "set"
    /\ LET rid == updated_resource_id(frozen_kwargs, targ[t].op)
           url == build_final_url(base_url,
                                Format(EndpointOf(targ[t].op), rid))
       IN  treq' = [treq EXCEPT ![t] = url.endpoint.id]
    /\ tpc' = [tpc EXCEPT ![t] = "called"]
    /\ UNCHANGED <<frozen_kwargs, targ, binderVars, clientVars>>

InitThreads ==
    /\ frozen_kwargs = [d \in BoundOps |-> 0]
    /\ tpc = [t \in Threads |-> "idle"]
    /\ targ = [t \in Threads |-> NoArg]
    /\ treq = [t \in Threads |-> 0]

-----------------------------------------------------------------------------
\* Initial states and specifications.

NoOps == [k \in {} |-> 0]

IdleBinder ==
    /\ declared = <<>>
    /\ binding = <<>>
    /\ template = FALSE
    /\ classes = <<>>
    /\ methods = <<>>

IdleThreads ==
    /\ frozen_kwargs = <<>>
    /\ tpc = <<>>
    /\ targ = <<>>
    /\ treq = <<>>

\* A client right after __init__: no session, no call made.
NewClient ==
    /\ session = 0
    /\ created = 0
    /\ dispatched = FALSE
    /\ sent = <<>>
    /\ pc = "idle"
    /\ call = NoCall
    /\ inner = NoOutcome
    /\ response = VNone
    /\ results = <<>>
    /\ outcome = NoOutcome
    /\ before = files

IdleClient ==
    /\ base_url = GoodBase
    /\ server = [p \in Pages |-> Bytes(p)]
    /\ files = [f \in Paths |-> Absent]
    /\ NewClient

\* The lists a class body may declare: one descriptor of any form, possibly
\* followed by one written like those of METHODS_BINDING (a name only).
Bindings ==
    LET D == {Descriptor(n, c, d) :
                n \in Names, c \in {"absent", "True", "False"},
                d \in {"", "given"}}
    IN  {<<d>> : d \in D}
        \cup {<<d, e>> : d \in D,
                         e \in {x \in D : x.csm = "absent" /\ x.docstring = ""}}

InitBind ==
    /\ declared \in {b \in Bindings :
                        \A i, j \in 1..Len(b) : i # j => b[i].name # b[j].name}
    /\ binding = declared
    /\ template \in BOOLEAN
    /\ classes = <<>>
    /\ methods = <<>>
    /\ IdleClient
    /\ IdleThreads

\* _MethodsGenerator.__new__ for the client type or, later, a subclass of
\* it: the binder runs on the class's (inherited) _methods_binding.
NewClass ==
    /\ Len(classes) < MaxClasses
    /\ LET mds == get_and_extend_methods(binding, template)
       IN  /\ methods' = Append(methods, mds)
           /\ classes' = Append(classes, Attach(NoOps, mds))
    /\ binding' = [i \in 1..Len(binding) |-> BindingAfter(binding[i], template)]
    /\ UNCHANGED <<declared, template, clientVars, threadVars>>

NextBind == NewClass

SpecBind == InitBind /\ [][NextBind]_vars

\* Any server, any base url; the fetch operations.
InitClient ==
    /\ base_url \in BaseUrls
    /\ server \in [Pages -> UNION {Shapes(p) : p \in Pages}]
    /\ \A p \in Pages : server[p].page = p
    /\ base_url # GoodBase => \A p \in Pages : server[p] = Bytes(p)
    /\ files = [f \in Paths |-> Absent]
    /\ NewClient
    /\ IdleBinder
    /\ IdleThreads

NextClient == Request \/ PaginateStep \/ Done

SpecClient == InitClient /\ [][NextClient]_vars

\* Linear chains of pages, a file "a" that exists and a path "b" that does
\* not; every operation of the client.
SaveShapes(p) ==
    {Bytes(p), Dict(p, {"data"}, 0), Dict(p, {"results", "next"}, 0)}
    \cup {Dict(p, {"results", "next"}, q) : q \in {p + 1} \cap Pages}

InitSave ==
    /\ base_url = GoodBase
    /\ server \in [Pages -> UNION {SaveShapes(p) : p \in Pages}]
    /\ \A p \in Pages : server[p].page = p
    /\ files = [f \in Paths |-> IF f = "a" THEN OldContent ELSE Absent]
    /\ NewClient
    /\ IdleBinder
    /\ IdleThreads

NextSave ==
    \/ Request
    \/ RequestAndSave
    \/ GetTrackingData
    \/ GetTrackingDataAndSave
    \/ PaginateStep
    \/ Done

SpecSave == InitSave /\ [][NextSave]_vars

\* Two threads, each with its own instance of the same client type.
InitRace ==
    /\ InitThreads
    /\ IdleBinder
    /\ IdleClient

NextRace ==
    \/ \E t \in Threads, d \in BoundOps, id \in Ids \cup {0} : Invoke(t, d, id)
    \/ \E t \in Threads : Dispatch(t)

SpecRace == InitRace /\ [][NextRace]_vars

-----------------------------------------------------------------------------
\* Properties.

\* ---- pagination

\* Whether page p links to a next page.
HasLink(p) ==
    /\ server[p].kind = "dict"
    /\ "next" \in server[p].keys
    /\ server[p].next # 0

\* The pages reached from p by following "next" links, up to the first page
\* that has no link or whose link leads back to a page already visited.
RECURSIVE Walk(_, _)
Walk(p, seen) ==
    IF HasLink(p) /\ server[p].next \notin seen \cup {p}
    THEN <<p>> \o Walk(server[p].next, seen \cup {p})
    ELSE <<p>>
Chain(p) == Walk(p, {})
LastOf(c) == c[Len(c)]
Cyclic(p) == HasLink(LastOf(Chain(p)))

RECURSIVE Concat(_)
Concat(c) == IF c = <<>> THEN <<>> ELSE Items(Head(c)) \o Concat(Tail(c))

HasResults(p) == server[p].kind = "dict" /\ "results" \in server[p].keys
\* The last page carries "next" with an empty value (null) ...
EndsEmpty(c) ==
    /\ \A i \in DOMAIN c : HasResults(c[i])
    /\ "next" \in server[LastOf(c)].keys
    /\ server[LastOf(c)].next = 0
\* ... or carries no "next" key at all.
EndsAbsent(c) ==
    /\ \A i \in DOMAIN c : HasResults(c[i])
    /\ "next" \notin server[LastOf(c)].keys

AllOk == \A i \in DOMAIN sent : sent[i].ok
Finished == pc \in {"returned", "raised"}

\* A plain fetch (no response key) of a page, against a valid base url,
\* every request of which the server has answered with a 2xx status.
PlainFetch ==
    /\ call.op = "_request"
    /\ call.response_key = "None"
    /\ base_url = GoodBase
    /\ AllOk

C2_UnwrapOrFullBody ==
    (pc # "idle" /\ call.op = "_request" /\ call.response_key # "None"
        /\ base_url = GoodBase /\ sent # <<>> /\ sent[1].ok)
        => LET body == VBody(server[call.endpoint.page])
           IN  /\ inner.kind = "return"
               /\ inner.val = IF HasKey(body, call.response_key)
                              THEN ValueAt(body, call.response_key)
                              ELSE body

\* ---- url construction

\* C3: when the url built from the base url and the endpoint lacks a scheme
\* and a host, the call fails with an invalid-url error and no request is
\* handed to the session with that value.
C3_InvalidUrlFailsBeforeDispatch ==
    (pc # "idle" /\ call.op = "_request" /\ base_url = BareBase)
        => /\ pc = "raised"
           /\ outcome.exc = "ValueError"
           /\ sent = <<>>

\* ---- pagination without end

\* The call has entered _paginate_and_return.
Paginated == inner.kind = "return" /\ ~is_response_complete(inner.val)

\* C9: when the "next" links of the pages form a cycle, a paginated call
\* never returns, and as long as the server answers the loop is about to
\* issue another request.
C9_CycleNeverReturns ==
    (pc # "idle" /\ Paginated /\ Cyclic(call.endpoint.page))
        => /\ pc # "returned"
           /\ (pc = "paging" /\ AllOk)
                 => /\ LoopError(response) = ""
                    /\ ~LoopBreaks(response)

\* A call on a cycle that has issued more requests than there are pages.
C9_Witness ==
    /\ pc = "paging"
    /\ Paginated
    /\ Cyclic(call.endpoint.page)
    /\ AllOk
    /\ Len(sent) > MaxPages

\* ---- tracking data

\* C4: a call of the tracking-data strategy whose params carry a file_format
\* outside {jsonl, fifa-data, fifa-xml} ends in a ValueError, and no HTTP
\* request has been issued by the call at that moment.
C4_BadFormatFailsBeforeRequest ==
    (call.op \in TrackingOps /\ call.params.given /\ call.params.has_format
        /\ call.params.file_format \notin {"jsonl", "fifa-data", "fifa-xml"})
        => /\ pc = "raised"
           /\ outcome.exc = "ValueError"
           /\ sent = <<>>

\* The first call on an instance, with file_format "bogus": it has failed and
\* the instance has never called session.request.
C4_Witness ==
    /\ call.op = "_get_tracking_data"
    /\ call.params = ParamsWith("bogus")
    /\ pc = "raised"
    /\ outcome.exc = "ValueError"
    /\ ~dispatched

\* ---- persistence

\* C5: a file that exists when a call starts keeps its content, and a call
\* that reaches _save_data with the path of an existing file ends in a
\* FileExistsError.
C5_NeverOverwrites ==
    /\ \A f \in Paths : before[f] # Absent => files[f] = before[f]
    /\ (Finished /\ call.op \in SaveOps /\ outcome.at = "save"
            /\ before[call.filepath] # Absent)
          => /\ outcome.exc = "FileExistsError"
             /\ files = before

\* A save to the path of the existing file, after a fetch that succeeded.
C5_Witness ==
    /\ pc = "raised"
    /\ call.op \in SaveOps
    /\ call.filepath = "a"
    /\ outcome.exc = "FileExistsError"
    /\ sent # <<>>
    /\ files["a"] = OldContent

\* ---- the session

Rest(n) == SubSeq(n, Len(FirstWord(n)) + 1, Len(n))

\* Where descriptor i's own entry stands in what get_and_extend_methods
\* returned for the first class.
PosOf(i) == i + Cardinality({j \in 1..(i - 1) : declared[j].csm # "False"})

\* C6: for every descriptor with create_save_method true, the derived name is
\* the original with only its first word replaced by "save", it differs from
\* the original, and the client type has both the fetch and the save
\* operation.
C6_SaveReplacesFirstWordOnly ==
    Len(classes) >= 1
        => \A i \in 1..Len(declared) :
              declared[i].csm # "False"
                 => LET n == declared[i].name
                        s == methods[1][PosOf(i) + 1].name
                        ops == classes[1]
                    IN  /\ s = SaveWord \o Rest(n)
                        /\ s # n
                        /\ \E k \in DOMAIN ops :
                              /\ ops[k].name = n
                              /\ ops[k].exec_method = "_request"
                        /\ \E k \in DOMAIN ops :
                              /\ ops[k].name = s
                              /\ ops[k].exec_method = "_request_and_save"

\* C8: building the operations leaves every descriptor of the binding list
\* as declared, every run of the binder on the list yields the same
\* operations, and a descriptor declared with create_save_method false has
\* no save variant in any class.
C8_DescriptorsNeverMutated ==
    /\ binding = declared
    /\ \A c \in 1..Len(classes) :
          /\ classes[c] = classes[1]
          /\ \A i \in 1..Len(declared) :
                declared[i].csm = "False"
                   => ~\E j \in 1..Len(methods[c]) :
                         /\ methods[c][j].name = SaveName(declared[i].name)
                         /\ methods[c][j].exec_method = "_request_and_save"

\* ---- threads

\* C7: the url of the request a call issues carries the resource id that was
\* passed to that call.
C7_OwnResourceId ==
    \A t \in Threads :
        (tpc[t] = "called" /\ HasResourceName(targ[t].op))
            => treq[t] = targ[t].id

====
